---------------------------- MODULE Spec2Model ----------------------------
(***************************************************************************)
(* A model of two classes of the resume and cover builder:                 *)
(*                                                                         *)
(*   LLMResumer   (llm/llm_job_parser.py): one session that fetches a job  *)
(*                posting, summarises it through a two stage prompt chain, *)
(*                caches the summary in self.job_description and answers   *)
(*                extraction questions against the cached summary.         *)
(*   ResumeFacade (resume_facade.py): holds a browser driver handed in by  *)
(*                the caller and renders documents with it.                *)
(*                                                                         *)
(* Every public method is one action that models the whole call.  What a   *)
(* call did (the steps it attempted, the model invocations it made, the    *)
(* browser session and the temporary file it created) is kept in the       *)
(* state as the observations of the most recent call.                      *)
(*                                                                         *)
(* Text is a sequence of one-character strings, so that str.strip() is     *)
(* computed rather than assumed.                                           *)
(***************************************************************************)
EXTENDS Naturals, Sequences, FiniteSets

VARIABLES
    job_description,   \* LLMResumer: <<>> while the attribute is absent, <<text>> once set
    before,            \* history: job_description at the entry of the most recent call
    fetch_succeeded,   \* history: some get_job_description_from_url call has returned
    op,                \* the most recent LLMResumer call
    outcome,           \* "returned", or the error the most recent call raised
    result,            \* <<>> (no value / None), or <<value>> returned by the call
    trace,             \* the steps the most recent call attempted, in order
    llm_log,           \* the model invocations of the most recent call, in order
    driver,            \* browser session created by the most recent call
    temp_file,         \* temporary file created by the most recent call
    fdriver,           \* ResumeFacade: <<>> while self.driver is absent, else <<d>>
    selected_style,    \* ResumeFacade: <<>> for None, else <<style name>>
    handed,            \* per driver object: times handed to HTML_to_PDF
    quits,             \* per driver object: times the facade called quit() on it
    used_after_quit,   \* per driver object: handed to HTML_to_PDF when already quit
    fop,               \* the most recent ResumeFacade call
    foutcome           \* "returned", or the error the most recent facade call raised

resumer_vars == <<job_description, before, fetch_succeeded, op, outcome, result,
                  trace, llm_log, driver, temp_file>>
facade_vars == <<fdriver, selected_style, handed, quits, used_after_quit, fop, foutcome>>
vars == <<job_description, before, fetch_succeeded, op, outcome, result,
          trace, llm_log, driver, temp_file,
          fdriver, selected_style, handed, quits, used_after_quit, fop, foutcome>>

---------------------------------------------------------------------------
(* Text and str.strip()                                                    *)

\* The characters str.strip() removes when called without an argument.
Whitespace == {" ", "\t", "\n", "\r"}

RECURSIVE LStrip(_)
LStrip(s) ==
    IF s = <<>> THEN s
    ELSE IF Head(s) \in Whitespace THEN LStrip(Tail(s)) ELSE s

RECURSIVE RStrip(_)
RStrip(s) ==
    IF s = <<>> THEN s
    ELSE IF s[Len(s)] \in Whitespace THEN RStrip(SubSeq(s, 1, Len(s) - 1)) ELSE s

\* A plausible slip: only the leading whitespace is removed.
StripLeadingOnly(s) == LStrip(s)

\* result.strip() (line 168)
Strip(s) == RStrip(LStrip(s))

---------------------------------------------------------------------------
(* Inputs                                                                  *)

\* Raw completions the language model may return: whitespace only, already
\* trimmed, padded on both sides, and padded with inner whitespace.
Completions ==
    { <<" ">>,
      <<"A">>,
      <<" ", "A", "\n">>,
      <<"\n", "A", " ", "B", " ">> }

\* The outcome of one model invocation: a completion, or a failure
\* (rate limit, network error, malformed response).
LLMOutcomes ==
    [ok : {TRUE}, text : Completions] \cup {[ok |-> FALSE, text |-> <<>>]}

\* The serialized body markup of the pages a URL may lead to.
Markups == {"<body>posting 1</body>", "<body>posting 2</body>"}

SummarizeQuestion == "Provide, full job description"
CompanyQuestion == "What is the company name in this job description?"
RoleQuestion == "What is the role or title being sought in this job description?"
LocationQuestion == "What is the location mentioned in this job description?"
EmailQuestion == "What is the recruiter's email address in this job description?"

\* Questions a caller may pass to _extract_information directly.
Questions ==
    {CompanyQuestion, RoleQuestion, LocationQuestion, EmailQuestion,
     "What is the salary range?"}

PreconditionError ==
    "ValueError: Job description not found. Please run get_job_description_from_url first."
ModelError == "model invocation failed"
BrowserError == "browser error"
FileError == "file error"
LoadError == "loader error"
IndexError == "index error"

\* The places of get_job_description_from_url, other than the two model
\* calls, at which a collaborator may raise.  driver.quit() and os.remove()
\* on a resource the call itself has just created are taken to succeed.
FailPoints ==
    {"create_driver_selenium", "driver.get", "find_element", "get_attribute",
     "NamedTemporaryFile", "write", "load", "split_documents",
     "FAISS.from_documents", "retrieve"}

---------------------------------------------------------------------------
(* The frame of one call                                                   *)

\* The frame a call starts with: the session's attribute, and no step taken.
Frame(jd) ==
    [jd |-> jd, raised |-> "none", value |-> <<>>, result |-> <<>>, trace |-> <<>>,
     llm_log |-> <<>>, driver |-> "none", temp_file |-> "none"]

Attempt(c, step) == [c EXCEPT !.trace = Append(@, step)]

Raise(c, err) == [c EXCEPT !.raised = err]

\* One step that touches no resource: it is attempted, and raises err when
\* it is the step that fails.
Step(c, step, fail, err) ==
    IF c.raised # "none" THEN c
    ELSE IF fail = step THEN Raise(Attempt(c, step), err)
    ELSE Attempt(c, step)

---------------------------------------------------------------------------
(* LLMResumer.get_job_description_from_url                                 *)

\* driver = create_driver_selenium()
CreateDriver(c, fail) ==
    IF c.raised # "none" THEN c
    ELSE IF fail = "create_driver_selenium"
         THEN Raise(Attempt(c, "create_driver_selenium"), BrowserError)
         ELSE [Attempt(c, "create_driver_selenium") EXCEPT !.driver = "open"]

\* driver.get(url); find_element("tag name", "body"); get_attribute("outerHTML")
ReadBody(c, response, fail) ==
    LET a == Step(c, "driver.get", fail, BrowserError)
        b == Step(a, "find_element", fail, BrowserError)
        d == Step(b, "get_attribute", fail, BrowserError)
    IN  IF d.raised = "none" THEN [d EXCEPT !.value = response] ELSE d

\* driver.quit(): a plain statement after the page was read, so it is not
\* reached when an earlier statement raised.
QuitDriver(c) ==
    IF c.raised # "none" THEN c
    ELSE [Attempt(c, "driver.quit") EXCEPT !.driver = "quit"]

\* with tempfile.NamedTemporaryFile(delete=False, ...) as temp_file:
\*     temp_file.write(response); temp_file_path = temp_file.name
\* The file is created with delete=False, so leaving the with block closes
\* it and keeps it on disk; the write is outside the try/finally below.
WriteTempFile(c, fail) ==
    IF c.raised # "none" THEN c
    ELSE IF fail = "NamedTemporaryFile"
         THEN Raise(Attempt(c, "NamedTemporaryFile"), FileError)
         ELSE Step([Attempt(c, "NamedTemporaryFile") EXCEPT !.temp_file = "exists"],
                   "write", fail, FileError)

\* try: loader = TextLoader(...); document = loader.load()
\* finally: os.remove(temp_file_path)
\* TextLoader reads the file as text: the document is the markup written.
LoadDocument(c, fail) ==
    IF c.raised # "none" THEN c
    ELSE [Attempt(Step(c, "load", fail, LoadError), "os.remove")
             EXCEPT !.temp_file = "removed"]

\* text_splitter.split_documents(document); FAISS.from_documents(...)
BuildIndex(c, fail) ==
    Step(Step(c, "split_documents", fail, IndexError),
         "FAISS.from_documents", fail, IndexError)

\* LoggerChatModel.__call__ (utils, outside the sources at hand): the model
\* is invoked once with the prompt, and its failure is not retried.
LoggerChatModelCall(log, stage, input, out) ==
    Append(log, [stage |-> stage, input |-> input, output |-> out])

\* (prompt | self.llm_cheap | StrOutputParser()).invoke(input): the prompt is
\* filled, the model called, and its text handed on; an exception of the
\* model call leaves the chain.
LLMInvoke(c, stage, input, out) ==
    IF c.raised # "none" THEN c
    ELSE LET d == [Attempt(c, stage) EXCEPT
                      !.llm_log = LoggerChatModelCall(@, stage, input, out)]
         IN  IF out.ok THEN [d EXCEPT !.value = out.text] ELSE Raise(d, ModelError)

\* context_formatter = vectorstore.as_retriever() | format_docs
\* The postings are shorter than one chunk: the retriever returns the one
\* chunk and format_docs joins a single chunk to itself.
RetrieveContext(c, fail) == Step(c, "retrieve", fail, IndexError)

\* A plausible slip: Stage 2 is run on the retrieved context, not on
\* Stage 1's output, and also when Stage 1 failed.
QAChainDetached(c, question, fail, s1, s2) ==
    LET r == RetrieveContext(c, fail)
        a == LLMInvoke(r, "stage1", [question |-> question, context |-> r.value], s1)
    IN  IF r.raised # "none" THEN r
        ELSE LLMInvoke([a EXCEPT !.raised = "none"], "stage2", [text |-> r.value], s2)

\* A plausible slip: when Stage 2 fails, Stage 1's answer is kept as the
\* summary.
QAChainFallback(c, question, fail, s1, s2) ==
    LET r == RetrieveContext(c, fail)
        a == LLMInvoke(r, "stage1", [question |-> question, context |-> r.value], s1)
        b == LLMInvoke(a, "stage2", [text |-> a.value], s2)
    IN  IF a.raised = "none" /\ b.raised # "none" THEN [b EXCEPT !.raised = "none"] ELSE b

\* qa_chain = {"context": ..., "question": ...} | chain_job_description
\*            | (lambda output: {"text": output}) | chain_summarize
\* result = qa_chain.invoke("Provide, full job description")
QAChain(c, question, fail, s1, s2) ==
    LET r == RetrieveContext(c, fail)
        a == LLMInvoke(r, "stage1", [question |-> question, context |-> r.value], s1)
    IN  LLMInvoke(a, "stage2", [text |-> a.value], s2)

\* A plausible slip: the attribute is cleared when the call failed.
AssignOrClear(c) ==
    IF c.raised # "none" THEN [c EXCEPT !.jd = <<>>]
    ELSE [Attempt(c, "assign") EXCEPT !.jd = <<c.value>>]

\* self.job_description = result
AssignJobDescription(c) ==
    IF c.raised # "none" THEN c
    ELSE [Attempt(c, "assign") EXCEPT !.jd = <<c.value>>]

\* The whole method; it returns None.
GetJobDescriptionFromUrl(jd, response, fail, s1, s2) ==
    LET browsed == QuitDriver(ReadBody(CreateDriver(Frame(jd), fail), response, fail))
        loaded == LoadDocument(WriteTempFile(browsed, fail), fail)
        indexed == BuildIndex(loaded, fail)
    IN  AssignJobDescription(QAChain(indexed, SummarizeQuestion, fail, s1, s2))

---------------------------------------------------------------------------
(* LLMResumer: the extraction methods                                      *)

\* A plausible slip: the hasattr check is missing, and reading the absent
\* attribute raises AttributeError.
ExtractInformationUnchecked(c, question, out) ==
    IF c.raised # "none" THEN c
    ELSE IF c.jd = <<>> THEN Raise(Attempt(c, "hasattr"), "AttributeError")
    ELSE LET d == LLMInvoke(Attempt(c, "hasattr"), "extract",
                            [job_description |-> c.jd[1], question |-> question], out)
         IN  IF d.raised = "none" THEN [d EXCEPT !.result = <<Strip(d.value)>>] ELSE d

\* A plausible slip: the answer is stored over the cached summary.
ExtractInformationOverwriting(c, question, out) ==
    IF c.raised # "none" THEN c
    ELSE IF c.jd = <<>> THEN Raise(Attempt(c, "hasattr"), PreconditionError)
    ELSE LET d == LLMInvoke(Attempt(c, "hasattr"), "extract",
                            [job_description |-> c.jd[1], question |-> question], out)
         IN  IF d.raised = "none"
             THEN [d EXCEPT !.result = <<Strip(d.value)>>, !.jd = <<Strip(d.value)>>]
             ELSE d

\* A plausible slip: a failed extraction drops the cached summary.
ExtractInformationDropping(c, question, out) ==
    IF c.raised # "none" THEN c
    ELSE IF c.jd = <<>> THEN Raise(Attempt(c, "hasattr"), PreconditionError)
    ELSE LET d == LLMInvoke(Attempt(c, "hasattr"), "extract",
                            [job_description |-> c.jd[1], question |-> question], out)
         IN  IF d.raised = "none" THEN [d EXCEPT !.result = <<Strip(d.value)>>]
             ELSE [d EXCEPT !.jd = <<>>]

\* _extract_information(question)
ExtractInformation(c, question, out) ==
    IF c.raised # "none" THEN c
    ELSE IF c.jd = <<>> THEN Raise(Attempt(c, "hasattr"), PreconditionError)
    ELSE LET d == LLMInvoke(Attempt(c, "hasattr"), "extract",
                            [job_description |-> c.jd[1], question |-> question], out)
         IN  IF d.raised = "none" THEN [d EXCEPT !.result = <<Strip(d.value)>>] ELSE d

ExtractCompanyName(c, out) == ExtractInformation(c, CompanyQuestion, out)

ExtractRole(c, out) == ExtractInformation(c, RoleQuestion, out)

ExtractLocation(c, out) == ExtractInformation(c, LocationQuestion, out)

ExtractRecruiterEmail(c, out) == ExtractInformation(c, EmailQuestion, out)

\* extract_all_details(): four calls in sequence; an exception of one of
\* them leaves the method before the later calls and before the return.
ExtractAllDetails(c, o1, o2, o3, o4) ==
    LET a == ExtractCompanyName(c, o1)
        b == ExtractRole(a, o2)
        d == ExtractLocation(b, o3)
        e == ExtractRecruiterEmail(d, o4)
    IN  IF e.raised # "none" THEN e
        ELSE [e EXCEPT !.result =
                 << [company_name |-> a.result[1], role |-> b.result[1],
                     location |-> d.result[1], recruiter_email |-> e.result[1]] >>]

---------------------------------------------------------------------------
(* ResumeFacade                                                            *)

\* The number of driver objects a caller holds.
NumDrivers == 2

\* How often one driver object is handed to HTML_to_PDF at most.
MaxUses == 2

Drivers == 1 .. NumDrivers

\* The choices format_choices presents: a style name, then " (" and the
\* rest of the label.
FormattedChoices ==
    { <<"Classic", " (", "style author -> a", ")">>,
      <<"Modern", " (", "style author -> b", ")">> }

\* selected_choice.split(' (')[0]
RECURSIVE SplitFirst(_)
SplitFirst(choice) ==
    IF choice = <<>> \/ Head(choice) = " (" THEN <<>>
    ELSE <<Head(choice)>> \o SplitFirst(Tail(choice))

\* set_driver(driver)
set_driver ==
    \E d \in Drivers :
        /\ fdriver' = <<d>>
        /\ fop' = "set_driver"
        /\ foutcome' = "returned"
        /\ UNCHANGED <<selected_style, handed, quits, used_after_quit>>
        /\ UNCHANGED resumer_vars

\* choose_style(): nothing is selected when the style manager has no styles.
choose_style ==
    /\ fop' = "choose_style"
    /\ foutcome' = "returned"
    /\ \/ UNCHANGED selected_style
       \/ \E choice \in FormattedChoices : selected_style' = SplitFirst(choice)
    /\ UNCHANGED <<fdriver, handed, quits, used_after_quit>>
    /\ UNCHANGED resumer_vars

\* result = HTML_to_PDF(html, self.driver); self.driver.quit(); return result
\* Reading self.driver raises AttributeError while no driver was set.  The
\* driver is handed over whatever its state; quit() is a plain statement
\* after the conversion, not reached when the conversion raised.
RenderAndQuit(pdf_ok) ==
    IF fdriver = <<>>
    THEN /\ foutcome' = "AttributeError"
         /\ UNCHANGED <<handed, quits, used_after_quit>>
    ELSE LET d == fdriver[1] IN
         /\ handed[d] < MaxUses
         /\ handed' = [handed EXCEPT ![d] = @ + 1]
         /\ used_after_quit' = [used_after_quit EXCEPT ![d] = @ \/ quits[d] > 0]
         /\ IF pdf_ok
            THEN /\ quits' = [quits EXCEPT ![d] = @ + 1]
                 /\ foutcome' = "returned"
            ELSE /\ UNCHANGED quits
                 /\ foutcome' = "HTML_to_PDF failed"

\* create_resume_pdf(job_description_text=None): both branches ask the
\* resume generator for the markup, which may raise.
create_resume_pdf ==
    /\ fop' = "create_resume_pdf"
    /\ UNCHANGED <<fdriver, selected_style>>
    /\ UNCHANGED resumer_vars
    /\ IF selected_style = <<>>
       THEN /\ foutcome' = "ValueError: Devi scegliere uno stile prima di generare il PDF."
            /\ UNCHANGED <<handed, quits, used_after_quit>>
       ELSE \/ /\ foutcome' = "resume generator failed"
               /\ UNCHANGED <<handed, quits, used_after_quit>>
            \/ \E pdf_ok \in BOOLEAN : RenderAndQuit(pdf_ok)

\* create_cover_letter(job_description_text)
create_cover_letter ==
    /\ fop' = "create_cover_letter"
    /\ UNCHANGED <<fdriver, selected_style>>
    /\ UNCHANGED resumer_vars
    /\ \/ /\ foutcome' = "resume generator failed"
          /\ UNCHANGED <<handed, quits, used_after_quit>>
       \/ \E pdf_ok \in BOOLEAN : RenderAndQuit(pdf_ok)

FacadeNext ==
    \/ set_driver
    \/ choose_style
    \/ create_resume_pdf
    \/ create_cover_letter

---------------------------------------------------------------------------
(* The LLMResumer session                                                  *)

\* The session's state after a call that ended with frame c.
Commit(name, c) ==
    /\ op' = name
    /\ before' = job_description
    /\ job_description' = c.jd
    /\ outcome' = IF c.raised = "none" THEN "returned" ELSE c.raised
    /\ result' = IF c.raised = "none" THEN c.result ELSE <<>>
    /\ trace' = c.trace
    /\ llm_log' = c.llm_log
    /\ driver' = c.driver
    /\ temp_file' = c.temp_file
    /\ fetch_succeeded' =
          (fetch_succeeded \/ (name = "get_job_description_from_url" /\ c.raised = "none"))
    /\ UNCHANGED facade_vars

get_job_description_from_url ==
    \E response \in Markups, fail \in FailPoints \cup {"none"}, s1, s2 \in LLMOutcomes :
        Commit("get_job_description_from_url",
               GetJobDescriptionFromUrl(job_description, response, fail, s1, s2))

extract_company_name ==
    \E out \in LLMOutcomes :
        Commit("extract_company_name", ExtractCompanyName(Frame(job_description), out))

extract_role ==
    \E out \in LLMOutcomes :
        Commit("extract_role", ExtractRole(Frame(job_description), out))

extract_location ==
    \E out \in LLMOutcomes :
        Commit("extract_location", ExtractLocation(Frame(job_description), out))

extract_recruiter_email ==
    \E out \in LLMOutcomes :
        Commit("extract_recruiter_email",
               ExtractRecruiterEmail(Frame(job_description), out))

extract_information ==
    \E question \in Questions, out \in LLMOutcomes :
        Commit("_extract_information",
               ExtractInformation(Frame(job_description), question, out))

extract_all_details ==
    \E o1, o2, o3, o4 \in LLMOutcomes :
        Commit("extract_all_details",
               ExtractAllDetails(Frame(job_description), o1, o2, o3, o4))

Init ==
    /\ job_description = <<>>
    /\ before = <<>>
    /\ fetch_succeeded = FALSE
    /\ op = "__init__"
    /\ outcome = "returned"
    /\ result = <<>>
    /\ trace = <<>>
    /\ llm_log = <<>>
    /\ driver = "none"
    /\ temp_file = "none"
    /\ fdriver = <<>>
    /\ selected_style = <<>>
    /\ handed = [d \in Drivers |-> 0]
    /\ quits = [d \in Drivers |-> 0]
    /\ used_after_quit = [d \in Drivers |-> FALSE]
    /\ fop = "__init__"
    /\ foutcome = "returned"

Next ==
    \/ get_job_description_from_url
    \/ extract_company_name
    \/ extract_role
    \/ extract_location
    \/ extract_recruiter_email
    \/ extract_information
    \/ extract_all_details

Spec == Init /\ [][Next]_vars

FacadeSpec == Init /\ [][FacadeNext]_vars

---------------------------------------------------------------------------
(* Vocabulary of the properties                                            *)

ExtractionOps ==
    {"extract_company_name", "extract_role", "extract_location",
     "extract_recruiter_email", "_extract_information", "extract_all_details"}

IsFetch == op = "get_job_description_from_url"

IsExtraction == op \in ExtractionOps

\* The places of a step in the trace of the most recent call.
Places(step) == {i \in 1 .. Len(trace) : trace[i] = step}

\* Step a, when attempted, was attempted after step b, which was attempted.
After(a, b) ==
    \A i \in Places(a) : \E j \in Places(b) : j < i

\* r is raw without its leading and its trailing whitespace.
IsTrimOf(r, raw) ==
    /\ r = <<>> \/ (r[1] \notin Whitespace /\ r[Len(r)] \notin Whitespace)
    /\ \E i \in 1 .. Len(raw) + 1 :
          /\ \A k \in 1 .. i - 1 : raw[k] \in Whitespace
          /\ \A k \in i + Len(r) .. Len(raw) : raw[k] \in Whitespace
          /\ i + Len(r) <= Len(raw) + 1
          /\ r = SubSeq(raw, i, i + Len(r) - 1)

DetailKeys == <<"company_name", "role", "location", "recruiter_email">>

DetailQuestions == <<CompanyQuestion, RoleQuestion, LocationQuestion, EmailQuestion>>

---------------------------------------------------------------------------
(* Properties                                                              *)

\* C1: an extraction call made while no get_job_description_from_url call
\* has returned fails with the precondition error and invokes the model
\* not at all; an extraction call made after one has returned never fails
\* with the precondition error.
C1_PreconditionGuard ==
    IsExtraction =>
        /\ ~fetch_succeeded => (outcome = PreconditionError /\ llm_log = <<>>)
        /\ fetch_succeeded => outcome # PreconditionError

C1_Witness ==
    /\ op = "extract_all_details"
    /\ ~fetch_succeeded
    /\ outcome = PreconditionError
    /\ llm_log = <<>>

\* C2: once get_job_description_from_url has returned or raised, the
\* temporary file it created is no longer on disk.
C2_TempFileRemoved ==
    (IsFetch /\ temp_file # "none") => temp_file = "removed"

\* C3: once get_job_description_from_url has returned or raised, the
\* browser session it created has been quit.
C3_DriverQuit ==
    (IsFetch /\ driver # "none") => driver = "quit"

\* C4: the cache is assigned only by a get_job_description_from_url call in
\* which every step up to and including Stage 2 succeeded, and the value
\* assigned is Stage 2's output; a call in which a step failed assigns
\* nothing.
C4_CacheOnlyOnFullSuccess ==
    /\ Places("assign") # {} =>
          /\ IsFetch /\ outcome = "returned"
          /\ \A step \in FailPoints : Places(step) # {}
          /\ Len(llm_log) = 2
          /\ llm_log[1].stage = "stage1" /\ llm_log[1].output.ok
          /\ llm_log[2].stage = "stage2" /\ llm_log[2].output.ok
          /\ job_description = <<llm_log[2].output.text>>
    /\ Places("assign") = {} =>
          /\ job_description = before
          /\ IsFetch => outcome # "returned"

C4_Witness ==
    /\ IsFetch
    /\ outcome = "returned"
    /\ job_description = <<llm_log[2].output.text>>
    /\ llm_log[1].output.text # llm_log[2].output.text

\* C5 as stated: once set, the cached summary never changes.
C5_CacheImmutableOnceSet ==
    before # <<>> => job_description = before

\* C5 as amended: once set, the cached summary is never unset, and it is
\* changed only by a get_job_description_from_url call that returned, which
\* overwrites it with that call's Stage 2 output.
C5_CacheOverwrittenOnlyByFetch ==
    before # <<>> =>
        /\ job_description # <<>>
        /\ job_description # before =>
              /\ IsFetch /\ outcome = "returned"
              /\ job_description = <<llm_log[Len(llm_log)].output.text>>

C5_Witness ==
    /\ before # <<>>
    /\ job_description # before
    /\ IsFetch

\* C6 as stated: after a get_job_description_from_url call that failed the
\* session holds no cached summary.
C6_NoCacheAfterFailedFetch ==
    (IsFetch /\ outcome # "returned") => job_description = <<>>

\* C6 as amended: a get_job_description_from_url call that failed leaves
\* the cache as it was: absent when no earlier call returned, and holding
\* the earlier summary when one did.
C6_FailedFetchKeepsCache ==
    (IsFetch /\ outcome # "returned") =>
        /\ job_description = before
        /\ job_description = <<>> <=> ~fetch_succeeded

C6_Witness ==
    /\ IsFetch
    /\ outcome # "returned"
    /\ fetch_succeeded
    /\ job_description # <<>>

\* C7: when extract_all_details returns, its result has exactly the four
\* keys, each holding the model's answer to the key's fixed question
\* without its leading and trailing whitespace; when one of the four
\* extractions fails, nothing is returned.
C7_AllDetailsMapping ==
    op = "extract_all_details" =>
        IF outcome = "returned"
        THEN /\ Len(llm_log) = 4
             /\ Len(result) = 1
             /\ DOMAIN result[1] = {DetailKeys[i] : i \in 1 .. 4}
             /\ \A i \in 1 .. 4 :
                   /\ llm_log[i].input.question = DetailQuestions[i]
                   /\ llm_log[i].output.ok
                   /\ IsTrimOf(result[1][DetailKeys[i]], llm_log[i].output.text)
        ELSE result = <<>>

C7_Witness ==
    /\ op = "extract_all_details"
    /\ outcome = "returned"
    /\ llm_log[1].output.text = <<"\n", "A", " ", "B", " ">>
    /\ result[1].company_name = <<"A", " ", "B">>
    /\ result[1].recruiter_email = <<>>

\* An extraction call that got past the precondition read summary jd.
ReadsSummary(log, jd) ==
    /\ log # <<>>
    /\ \A i \in 1 .. Len(log) : log[i].input.job_description = jd

\* C8: an extraction call, whether it returned or its model invocation
\* failed, leaves the cached summary unchanged, and the extraction call
\* that follows it does not fail with the precondition error and reads the
\* same summary.
C8_ExtractionKeepsCache ==
    /\ [](IsExtraction => job_description = before)
    /\ [][(IsExtraction /\ outcome \in {"returned", ModelError} /\ IsExtraction')
            => /\ outcome' # PreconditionError
               /\ ReadsSummary(llm_log, before[1])
               /\ ReadsSummary(llm_log', before[1])]_vars

C8_Witness ==
    /\ IsExtraction
    /\ outcome = ModelError
    /\ job_description = before
    /\ ReadsSummary(llm_log, job_description[1])

\* C9: in one get_job_description_from_url call the context is retrieved,
\* then Stage 1 runs, then Stage 2 on Stage 1's output alone, then the
\* cache is assigned; each stage is attempted at most once, Stage 2 not at
\* all when Stage 1 failed, and a failed stage fails the call.
C9_SummarizeOrder ==
    IsFetch =>
        /\ After("stage1", "retrieve")
        /\ After("stage2", "stage1")
        /\ After("assign", "stage2")
        /\ \A step \in {"retrieve", "stage1", "stage2", "assign"} :
              Cardinality(Places(step)) <= 1
        /\ Len(llm_log) = Cardinality(Places("stage1")) + Cardinality(Places("stage2"))
        /\ Len(llm_log) >= 1 => llm_log[1].stage = "stage1"
        /\ Len(llm_log) >= 2 =>
              /\ llm_log[2].stage = "stage2"
              /\ llm_log[1].output.ok
              /\ llm_log[2].input = [text |-> llm_log[1].output.text]
        /\ \A i \in 1 .. Len(llm_log) :
              ~llm_log[i].output.ok =>
                  (outcome = ModelError /\ i = Len(llm_log) /\ Places("assign") = {})

C9_Witness ==
    /\ IsFetch
    /\ Places("assign") # {}
    /\ llm_log[1].input.question = SummarizeQuestion
    /\ llm_log[2].input.text = llm_log[1].output.text
    /\ llm_log[2].output.text # llm_log[1].output.text

\* C10: a driver is never handed to HTML_to_PDF after the facade has quit
\* it, and every driver handed to HTML_to_PDF is quit by the facade exactly
\* once.
C10_DriverUsedThenQuitOnce ==
    \A d \in Drivers :
        /\ ~used_after_quit[d]
        /\ handed[d] > 0 => quits[d] = 1
=============================================================================
